---- MODULE Spec2Model ----
(***************************************************************************)
(* Model of src/nba_app.py: the cached data producers of the dashboard     *)
(* (get_team_map, get_live_injuries, get_todays_games, get_league_trends), *)
(* the nested classifiers analyze_matchup and get_status, and the trends   *)
(* consumer of tab 1.                                                      *)
(*                                                                         *)
(* Conventions.  Strings that the code inspects character by character     *)
(* (player names) are sequences of one-character strings.  Per-game values *)
(* and defensive ratings carry one decimal in the feeds and are held in    *)
(* tenths (20.0 is 200, 116.0 is 1160).  A python dict is a TLA+ function; *)
(* where the code depends on a dict's iteration order (the roster) the     *)
(* dict is the sequence of its items in insertion order.  A DataFrame is   *)
(* a record of its column names and the sequence of its rows.  Emoji in    *)
(* label texts are left out of the string literals.                        *)
(***************************************************************************)
EXTENDS Integers, Sequences, FiniteSets, TLC

VARIABLES
    team_map,    \* get_live_injuries: the roster returned by get_team_map()
    inj_fetch,   \* get_live_injuries: outcome of requests.get + pd.read_html
    injuries,    \* get_live_injuries: the returned dict
    inj_pc,      \* "start" | "ok" | "failed"
    board,       \* scoreboard rows by date offset (0 today US/Eastern, 1 next day)
    games,       \* get_todays_games: the returned dict
    probed,      \* get_todays_games: the date offsets it asked the scoreboard for
    games_pc,    \* "start" | "ok" | "failed"
    my_team,     \* analyze_matchup: row['TEAM_ID']
    defense,     \* the table returned by get_defensive_rankings()
    matchup,     \* analyze_matchup: the returned label
    season_in,   \* get_league_trends: outcome of the season stats fetch
    last5_in,    \* get_league_trends: outcome of the last-5 stats fetch
    live_in,     \* get_defensive_rankings: outcome of the live ratings fetch
    trends,      \* get_league_trends: the returned DataFrame
    trends_pc,   \* "start" | "ok" | "failed"
    rendered,    \* tab 1 trends consumer: "none" | "ok" | "KeyError"
    now,         \* wall clock, seconds
    ticks,       \* number of clock advances so far
    cache,       \* st.cache_data: per producer, the stored entry
    ret          \* the last top-level cached call and what it returned

vars == <<team_map, inj_fetch, injuries, inj_pc, board, games, probed, games_pc,
          my_team, defense, matchup, season_in, last5_in, live_in, trends,
          trends_pc, rendered, now, ticks, cache, ret>>

injVars == <<team_map, inj_fetch, injuries, inj_pc>>
gamesVars == <<board, games, probed, games_pc>>
matchVars == <<my_team, defense, matchup>>
trendVars == <<season_in, last5_in, live_in, trends, trends_pc, rendered>>
cacheVars == <<now, ticks, cache, ret>>

(***************************************************************************)
(* Generic helpers                                                         *)
(***************************************************************************)
EmptyDict == [k \in {} |-> k]

\* d[k] = v on a python dict
DictPut(d, k, v) == [x \in (DOMAIN d) \cup {k} |-> IF x = k THEN v ELSE d[x]]

\* all sequences over S of length lo..hi
SeqsOf(S, lo, hi) == UNION {[1..n -> S] : n \in lo..hi}

\* sequences without a repeated element
Distinct(s) == \A i, j \in DOMAIN s : i # j => s[i] # s[j]

(***************************************************************************)
(* get_live_injuries (src/nba_app.py 63-98)                                *)
(***************************************************************************)
MaxRoster == 2     \* roster entries in a modelled run
MaxInjRows == 2    \* rows of the injury table in a modelled run

Alphabet == {"a", "b"}
Whitespace == {" "}
CanonNames == SeqsOf(Alphabet, 1, 2)   \* canonical names of the roster feed
RawNames == SeqsOf(Alphabet, 1, 3)     \* raw names of the injury page
TeamCodes == <<"BOS", "LAL", "NYK", "MIA">>
StatusTexts == <<"Out", "Game Time Decision", "Doubtful", "Probable">>

\* official_name in dirty_name
IsSubstring(s, t) ==
    \E i \in 0..(Len(t) - Len(s)) : SubSeq(t, i + 1, i + Len(s)) = s

\* str.strip()
RECURSIVE LStrip(_)
LStrip(s) == IF s # <<>> /\ Head(s) \in Whitespace THEN LStrip(Tail(s)) ELSE s
RECURSIVE RStrip(_)
RStrip(s) ==
    IF s # <<>> /\ s[Len(s)] \in Whitespace THEN RStrip(SubSeq(s, 1, Len(s) - 1)) ELSE s
Strip(s) == RStrip(LStrip(s))

\* f"{status} ({team_code})"
FormatInjury(status, team_code) == <<status, " (", team_code, ")">>

\* The rosters get_team_map can return: a dict of distinct names in insertion
\* order ({} when its fetch failed).  Entry i carries team code i.
Rosters ==
    {[i \in DOMAIN ns |-> <<ns[i], TeamCodes[i]>>] :
        ns \in {s \in SeqsOf(CanonNames, 0, MaxRoster) : Distinct(s)}}

\* The cells pd.read_html yields carry no outer whitespace.  Row i carries
\* status text i.
InjuryRowSeqs ==
    {[i \in DOMAIN ns |-> [Player |-> ns[i], Status |-> StatusTexts[i]]] :
        ns \in SeqsOf(RawNames, 0, MaxInjRows)}

PlayerTables == {[cols |-> {"Player", "Injury Status"}, rows |-> r] : r \in InjuryRowSeqs}
\* a table of the page without a Player column, and one whose status column
\* has another name
OtherTable == [cols |-> {"Team"}, rows |-> <<[Player |-> <<"a">>, Status |-> "Out"]>>]
BadTable == [cols |-> {"Player"}, rows |-> <<[Player |-> <<"a">>, Status |-> "Out"]>>]

InjuryFetches ==
    {[ok |-> FALSE, tables |-> <<>>]}
    \cup {[ok |-> TRUE, tables |-> <<t>>] : t \in PlayerTables}
    \cup {[ok |-> TRUE, tables |-> <<OtherTable, t>>] :
            t \in {p \in PlayerTables : Len(p.rows) <= 1}}
    \cup {[ok |-> TRUE, tables |-> <<t, BadTable>>] :
            t \in {p \in PlayerTables : Len(p.rows) <= 1}}

\* lines 87-91 with the break left out: the last matching roster entry wins
RECURSIVE ScanRosterNoBreak(_, _, _)
ScanRosterNoBreak(tm, dirty_name, found) ==
    IF tm = <<>> THEN found
    ELSE ScanRosterNoBreak(Tail(tm), dirty_name,
            IF IsSubstring(Head(tm)[1], dirty_name)
            THEN [clean_name |-> Head(tm)[1], team_code |-> Head(tm)[2]]
            ELSE found)

\* lines 83-91: clean_name/team_code start as the raw name and "Unknown"; the
\* roster is scanned in order and the scan breaks at the first match
RECURSIVE ScanRoster(_, _, _)
ScanRoster(tm, dirty_name, found) ==
    IF tm = <<>> THEN found
    ELSE IF IsSubstring(Head(tm)[1], dirty_name)
         THEN [clean_name |-> Head(tm)[1], team_code |-> Head(tm)[2]]
         ELSE ScanRoster(Tail(tm), dirty_name, found)

\* lines 78-94: one row of a table with a Player column
InjuryRow(tm, row, inj) ==
    LET dirty_name == Strip(row.Player)
        m == ScanRoster(tm, dirty_name, [clean_name |-> dirty_name, team_code |-> "Unknown"])
    IN DictPut(inj, m.clean_name, FormatInjury(row.Status, m.team_code))

RECURSIVE InjuryRows(_, _, _)
InjuryRows(tm, rows, inj) ==
    IF rows = <<>> THEN inj ELSE InjuryRows(tm, Tail(rows), InjuryRow(tm, Head(rows), inj))

\* lines 76-77: tables without a Player column are skipped
RECURSIVE InjuryTables(_, _, _)
InjuryTables(tm, tables, inj) ==
    IF tables = <<>> THEN inj
    ELSE InjuryTables(tm, Tail(tables),
            IF "Player" \in Head(tables).cols
            THEN InjuryRows(tm, Head(tables).rows, inj) ELSE inj)

\* row['Injury Status'] raises KeyError on the first row of a Player table
\* that has no such column; requests.get / pd.read_html may raise as well
InjuryRaises(fetch) ==
    \/ ~fetch.ok
    \/ \E i \in DOMAIN fetch.tables :
          /\ "Player" \in fetch.tables[i].cols
          /\ "Injury Status" \notin fetch.tables[i].cols
          /\ fetch.tables[i].rows # <<>>

\* lines 64-98: the bare except returns {} whatever was collected
get_live_injuries(tm, fetch) ==
    IF InjuryRaises(fetch) THEN EmptyDict ELSE InjuryTables(tm, fetch.tables, EmptyDict)

GetLiveInjuries ==
    /\ inj_pc = "start"
    /\ injuries' = get_live_injuries(team_map, inj_fetch)
    /\ inj_pc' = IF InjuryRaises(inj_fetch) THEN "failed" ELSE "ok"
    /\ UNCHANGED <<team_map, inj_fetch>>
    /\ UNCHANGED <<gamesVars, matchVars, trendVars, cacheVars>>

(***************************************************************************)
(* get_todays_games (src/nba_app.py 181-206)                               *)
(***************************************************************************)
MaxBoardRows == 2   \* rows of the probed day's scoreboard in a modelled run

Today == 0          \* datetime.now(eastern): the one date the code asks for
NextDay == Today + 1

BoardTeams == {1, 2, 3, 4}
BoardRows == [HOME_TEAM_ID : BoardTeams, VISITOR_TEAM_ID : BoardTeams]

Boards ==
    {[d \in {Today, NextDay} |-> IF d = Today THEN t ELSE [ok |-> TRUE, rows |-> n]] :
        t \in {[ok |-> FALSE, rows |-> <<>>]}
              \cup {[ok |-> TRUE, rows |-> r] : r \in SeqsOf(BoardRows, 0, MaxBoardRows)},
        n \in SeqsOf(BoardRows, 0, 1)}

\* lines 196-202 with the second assignment left out
RECURSIVE GamesOfRowsOneWay(_, _)
GamesOfRowsOneWay(rows, g) ==
    IF rows = <<>> THEN g
    ELSE GamesOfRowsOneWay(Tail(rows),
            DictPut(g, Head(rows).HOME_TEAM_ID, Head(rows).VISITOR_TEAM_ID))

\* lines 196-202: games[home_id] = visitor_id; games[visitor_id] = home_id
RECURSIVE GamesOfRows(_, _)
GamesOfRows(rows, g) ==
    IF rows = <<>> THEN g
    ELSE LET home_id == Head(rows).HOME_TEAM_ID
             visitor_id == Head(rows).VISITOR_TEAM_ID
         IN GamesOfRows(Tail(rows), DictPut(DictPut(g, home_id, visitor_id), visitor_id, home_id))

\* a get_todays_games that also asks for the following day and adds its rows
TodaysGamesTwoDates(b) ==
    IF ~b[Today].ok \/ ~b[NextDay].ok THEN EmptyDict
    ELSE GamesOfRows(b[Today].rows \o b[NextDay].rows, EmptyDict)

\* lines 184-206: one scoreboard request, for today's date in US/Eastern; {}
\* when it raises or the board is empty
get_todays_games(b) ==
    IF ~b[Today].ok THEN EmptyDict
    ELSE IF b[Today].rows = <<>> THEN EmptyDict
    ELSE GamesOfRows(b[Today].rows, EmptyDict)

\* line 189: the dates requested
DatesProbed == {Today}

GetTodaysGames ==
    /\ games_pc = "start"
    /\ games' = get_todays_games(board)
    /\ probed' = DatesProbed
    /\ games_pc' = IF board[Today].ok THEN "ok" ELSE "failed"
    /\ UNCHANGED board
    /\ UNCHANGED <<injVars, matchVars, trendVars, cacheVars>>

(***************************************************************************)
(* analyze_matchup (src/nba_app.py 130-151)                                *)
(***************************************************************************)
SoftAbove == 1160    \* opp_rating > 116.0
ToughBelow == 1120   \* opp_rating < 112.0

\* lines 145-150 with the two comparisons made inclusive
RatingLabelInclusive(opp_name, opp_rating) ==
    IF opp_rating >= SoftAbove THEN <<"vs ", opp_name, " (Soft)">>
    ELSE IF opp_rating <= ToughBelow THEN <<"vs ", opp_name, " (Tough)">>
    ELSE <<"vs ", opp_name, " (Avg)">>

\* lines 145-150
RatingLabel(opp_name, opp_rating) ==
    IF opp_rating > SoftAbove THEN <<"vs ", opp_name, " (Soft)">>
    ELSE IF opp_rating < ToughBelow THEN <<"vs ", opp_name, " (Tough)">>
    ELSE <<"vs ", opp_name, " (Avg)">>

\* lines 130-151; g and def are the closure's games and defense
analyze_matchup(team, g, def) ==
    IF team \notin DOMAIN g THEN <<"No Game">>
    ELSE LET opponent_id == g[team]
         IN IF opponent_id \in DOMAIN def
            THEN RatingLabel(def[opponent_id].Team, def[opponent_id].Rating)
            ELSE <<"vs Unknown">>

TeamName(t) == <<"Team", t>>
MatchupRatings == {1100, 1119, 1120, 1121, 1140, 1159, 1160, 1161, 1180}

\* defense tables for the classifier taken alone: any set of teams, any rating
MatchupDefenses ==
    {[t \in ts |-> [Team |-> TeamName(t), Rating |-> r]] :
        ts \in SUBSET BoardTeams, r \in MatchupRatings}

AnalyzeMatchup ==
    /\ matchup = <<>>
    /\ matchup' = analyze_matchup(my_team, games, defense)
    /\ UNCHANGED <<my_team, defense>>
    /\ UNCHANGED <<injVars, gamesVars, trendVars, cacheVars>>

(***************************************************************************)
(* get_defensive_rankings: called at line 128, defined nowhere in          *)
(* src/nba_app.py.  Modelled from the specification's Defense Rating Table *)
(* (one entry per known team; the fixed neutral rating for every team when *)
(* the live fetch fails).                                                  *)
(***************************************************************************)
NumTeams == 30
NeutralRating == 1140
KnownTeams == 1..NumTeams

\* a fallback that leaves the last known team out
FallbackMissesATeam(live) ==
    IF live.ok
    THEN [t \in KnownTeams |-> [Team |-> TeamName(t), Rating |-> live.ratings[t]]]
    ELSE [t \in 1..(NumTeams - 1) |-> [Team |-> TeamName(t), Rating |-> NeutralRating]]

get_defensive_rankings(live) ==
    IF live.ok
    THEN [t \in KnownTeams |-> [Team |-> TeamName(t), Rating |-> live.ratings[t]]]
    ELSE [t \in KnownTeams |-> [Team |-> TeamName(t), Rating |-> NeutralRating]]

LiveFetches ==
    {[ok |-> FALSE, ratings |-> <<>>],
     [ok |-> TRUE,
      ratings |-> [t \in KnownTeams |-> IF t = 1 THEN 1180 ELSE IF t = 2 THEN 1100 ELSE 1140]]}

(***************************************************************************)
(* get_league_trends (src/nba_app.py 100-179) and its consumer (320-323)   *)
(* REB and AST travel through the merge and are dropped by the column      *)
(* selection of line 175 without being read; the rows leave them out.      *)
(***************************************************************************)
MaxPlayers == 2   \* players of the stats feeds in a modelled run
MinGP == 3        \* last5_stats['GP'] >= 3

Players == 1..MaxPlayers
SeasonPts == {200, 220}
Last5Pts == {170, 185, 205, 240, 260}
Last5GP == {2, 3}

\* one row per player at most, in player order; player p plays for team p
RECURSIVE FrameRows(_, _)
FrameRows(ps, row) ==
    IF ps = {} THEN <<>>
    ELSE LET p == CHOOSE x \in ps : \A y \in ps : x <= y
         IN <<row[p]>> \o FrameRows(ps \ {p}, row)

SeasonRowsOf(p) ==
    {[PLAYER_ID |-> p, PLAYER_NAME |-> <<"Player", p>>, TEAM_ID |-> p, PTS |-> v] :
        v \in SeasonPts}
Last5RowsOf(p) == {[PLAYER_ID |-> p, GP |-> g, PTS |-> v] : g \in Last5GP, v \in Last5Pts}

SeasonFrames ==
    UNION {{FrameRows(ps, row) :
              row \in {f \in [ps -> UNION {SeasonRowsOf(p) : p \in ps}] :
                         \A p \in ps : f[p] \in SeasonRowsOf(p)}} : ps \in SUBSET Players}
Last5Frames ==
    UNION {{FrameRows(ps, row) :
              row \in {f \in [ps -> UNION {Last5RowsOf(p) : p \in ps}] :
                         \A p \in ps : f[p] \in Last5RowsOf(p)}} : ps \in SUBSET Players}

SeasonFetches ==
    {[ok |-> FALSE, rows |-> <<>>]} \cup {[ok |-> TRUE, rows |-> r] : r \in SeasonFrames}
Last5Fetches ==
    {[ok |-> FALSE, rows |-> <<>>]} \cup {[ok |-> TRUE, rows |-> r] : r \in Last5Frames}

\* the scoreboards of the trends runs: an off day, a game between two known
\* teams, a game against a team outside the known thirty
TrendBoards ==
    {[d \in {Today, NextDay} |-> [ok |-> TRUE, rows |-> IF d = Today THEN r ELSE <<>>]] :
        r \in {<<>>,
               <<[HOME_TEAM_ID |-> 1, VISITOR_TEAM_ID |-> 2]>>,
               <<[HOME_TEAM_ID |-> NumTeams + 1, VISITOR_TEAM_ID |-> 2]>>}}

Cols == {"Player", "Matchup", "Season PPG", "Last 5 PPG", "Trend (Delta)", "Status"}
\* pd.DataFrame()
EmptyFrame == [columns |-> {}, rows |-> <<>>]

\* line 113 with the threshold one game lower
FilterGPLoose(rows) == SelectSeq(rows, LAMBDA r : r.GP >= MinGP - 1)

\* line 113
FilterGP(rows) == SelectSeq(rows, LAMBDA r : r.GP >= MinGP)

\* lines 117-122: pd.merge(..., on='PLAYER_ID'), an inner join in the order of
\* the left frame's rows
RECURSIVE MergeRow(_, _)
MergeRow(l, right) ==
    IF right = <<>> THEN <<>>
    ELSE (IF Head(right).PLAYER_ID = l.PLAYER_ID
          THEN <<[PLAYER_ID |-> l.PLAYER_ID, PLAYER_NAME |-> l.PLAYER_NAME,
                  TEAM_ID |-> l.TEAM_ID, PTS_Season |-> l.PTS, PTS_L5 |-> Head(right).PTS]>>
          ELSE <<>>)
         \o MergeRow(l, Tail(right))
RECURSIVE Merge(_, _)
Merge(left, right) ==
    IF left = <<>> THEN <<>> ELSE MergeRow(Head(left), right) \o Merge(Tail(left), right)

\* line 124 with the operands exchanged
TrendDeltaSwapped(m) == m.PTS_Season - m.PTS_L5

\* line 124
TrendDelta(m) == m.PTS_L5 - m.PTS_Season

\* lines 163-169 with the first comparison made strict
get_status_strict(d) ==
    IF d > 40 THEN "Super Hot"
    ELSE IF d >= 20 THEN "Heating Up"
    ELSE IF d <= -30 THEN "Ice Cold"
    ELSE IF d <= -15 THEN "Cooling Down"
    ELSE "Zap"

\* lines 163-169 (4.0, 2.0, -3.0, -1.5 in tenths)
get_status(d) ==
    IF d >= 40 THEN "Super Hot"
    ELSE IF d >= 20 THEN "Heating Up"
    ELSE IF d <= -30 THEN "Ice Cold"
    ELSE IF d <= -15 THEN "Cooling Down"
    ELSE "Zap"

\* lines 124-175 on one merged row: delta, matchup, renamed columns, status
TrendRow(m, g, def) ==
    LET d == TrendDelta(m)
    IN [Player |-> m.PLAYER_NAME, Matchup |-> analyze_matchup(m.TEAM_ID, g, def),
        SeasonPPG |-> m.PTS_Season, Last5PPG |-> m.PTS_L5, TrendDelta |-> d,
        Status |-> get_status(d)]

\* line 175: sort_values(by='Trend (Delta)', ascending=False); the order of
\* rows with equal deltas is whatever the sort leaves
SortedDesc(rows) ==
    {[i \in DOMAIN rows |-> rows[p[i]]] :
        p \in {q \in [DOMAIN rows -> DOMAIN rows] :
                 /\ \A i, j \in DOMAIN rows : i # j => q[i] # q[j]
                 /\ \A i, j \in DOMAIN rows :
                       i < j => rows[q[i]].TrendDelta >= rows[q[j]].TrendDelta}}

\* lines 177-179
FailureFrame == EmptyFrame

TrendsRaises == ~season_in.ok \/ ~last5_in.ok

GetLeagueTrends ==
    /\ trends_pc = "start"
    /\ IF TrendsRaises
       THEN /\ trends' = FailureFrame
            /\ trends_pc' = "failed"
            /\ UNCHANGED <<games, probed, games_pc, defense>>
       ELSE LET merged == Merge(season_in.rows, FilterGP(last5_in.rows))
                g == get_todays_games(board)
                def == get_defensive_rankings(live_in)
                out == [i \in DOMAIN merged |-> TrendRow(merged[i], g, def)]
            IN /\ \E s \in SortedDesc(out) : trends' = [columns |-> Cols, rows |-> s]
               /\ trends_pc' = "ok"
               /\ games' = g
               /\ probed' = DatesProbed
               /\ games_pc' = "ok"
               /\ defense' = def
    /\ UNCHANGED <<season_in, last5_in, live_in, rendered, board, my_team, matchup>>
    /\ UNCHANGED <<injVars, cacheVars>>

\* lines 320-323: df_trends[['Player', 'Trend (Delta)', 'Status']].head(10)
Tab1Trends ==
    /\ trends_pc # "start"
    /\ rendered = "none"
    /\ rendered' = IF {"Player", "Trend (Delta)", "Status"} \subseteq trends.columns
                   THEN "ok" ELSE "KeyError"
    /\ UNCHANGED <<season_in, last5_in, live_in, trends, trends_pc>>
    /\ UNCHANGED <<injVars, gamesVars, matchVars, cacheVars>>

(***************************************************************************)
(* st.cache_data(ttl=...) around the four producers (lines 49, 63, 100,    *)
(* 181).  An entry is served while its age is below the ttl; otherwise the *)
(* producer runs and its value is stored with the time of the call.  What  *)
(* a producer returns is held as <<time of the fetch, time of the fetch of *)
(* the cached value it read>> (-1 where it read none): get_live_injuries   *)
(* reads get_team_map (line 69), get_league_trends reads get_todays_games  *)
(* (line 127) unless a stats fetch raised before.                          *)
(***************************************************************************)
MaxTicks == 4   \* clock advances in a modelled run

Producers == {"get_team_map", "get_live_injuries", "get_todays_games", "get_league_trends"}
TickSteps == {1, 599, 3000, 82800}
NoValue == <<-1, -1>>

\* the decorators with the ttl of get_league_trends taken from get_todays_games
ttl_trends_hourly(f) ==
    CASE f = "get_team_map" -> 86400
      [] f = "get_live_injuries" -> 3600
      [] f = "get_todays_games" -> 3600
      [] f = "get_league_trends" -> 3600

\* lines 49, 63, 181, 100
ttl(f) ==
    CASE f = "get_team_map" -> 86400
      [] f = "get_live_injuries" -> 3600
      [] f = "get_todays_games" -> 3600
      [] f = "get_league_trends" -> 600

CacheHit(c, f, t) == c[f].valid /\ t - c[f].ts < ttl(f)
CacheStore(c, f, t, v) == [c EXCEPT ![f] = [valid |-> TRUE, ts |-> t, val |-> v]]

\* a call of cached producer `outer`, whose body calls cached producer
\* `inner` when callsInner
CachedCall(outer, inner, callsInner) ==
    IF CacheHit(cache, outer, now)
    THEN /\ cache' = cache
         /\ ret' = [n |-> 1 - ret.n, called |-> {outer}, ran |-> {},
                    got |-> [f \in {outer} |-> cache[outer].val]]
    ELSE LET innerHit == CacheHit(cache, inner, now)
             innerVal == IF innerHit THEN cache[inner].val ELSE <<now, -1>>
             c1 == IF callsInner /\ ~innerHit
                   THEN CacheStore(cache, inner, now, innerVal) ELSE cache
             outerVal == <<now, IF callsInner THEN innerVal[1] ELSE -1>>
         IN /\ cache' = CacheStore(c1, outer, now, outerVal)
            /\ ret' = [n |-> 1 - ret.n,
                       called |-> {outer} \cup (IF callsInner THEN {inner} ELSE {}),
                       ran |-> {outer} \cup (IF callsInner /\ ~innerHit THEN {inner} ELSE {}),
                       got |-> [f \in {outer} \cup (IF callsInner THEN {inner} ELSE {}) |->
                                  IF f = outer THEN outerVal ELSE innerVal]]

\* lines 231, 348
CallLiveInjuries ==
    /\ CachedCall("get_live_injuries", "get_team_map", TRUE)
    /\ UNCHANGED <<now, ticks>>
    /\ UNCHANGED <<injVars, gamesVars, matchVars, trendVars>>

\* lines 232, 322, 349
CallLeagueTrends ==
    /\ \E callsGames \in BOOLEAN :
          CachedCall("get_league_trends", "get_todays_games", callsGames)
    /\ UNCHANGED <<now, ticks>>
    /\ UNCHANGED <<injVars, gamesVars, matchVars, trendVars>>

Tick ==
    /\ ticks < MaxTicks
    /\ \E d \in TickSteps : now' = now + d
    /\ ticks' = ticks + 1
    /\ UNCHANGED <<cache, ret>>
    /\ UNCHANGED <<injVars, gamesVars, matchVars, trendVars>>

(***************************************************************************)
(* Specifications                                                          *)
(***************************************************************************)
IdleInjuries ==
    /\ team_map = <<>>
    /\ inj_fetch = [ok |-> FALSE, tables |-> <<>>]
    /\ injuries = EmptyDict
    /\ inj_pc = "idle"
IdleGames ==
    /\ board = [d \in {Today, NextDay} |-> [ok |-> TRUE, rows |-> <<>>]]
    /\ games = EmptyDict
    /\ probed = {}
    /\ games_pc = "idle"
IdleMatchup ==
    /\ my_team = 0
    /\ defense = EmptyDict
    /\ matchup = <<"idle">>
IdleTrends ==
    /\ season_in = [ok |-> FALSE, rows |-> <<>>]
    /\ last5_in = [ok |-> FALSE, rows |-> <<>>]
    /\ live_in = [ok |-> FALSE, ratings |-> <<>>]
    /\ trends = EmptyFrame
    /\ trends_pc = "idle"
    /\ rendered = "idle"
IdleCache ==
    /\ now = 0
    /\ ticks = 0
    /\ cache = [f \in Producers |-> [valid |-> FALSE, ts |-> 0, val |-> NoValue]]
    /\ ret = [n |-> 0, called |-> {}, ran |-> {}, got |-> EmptyDict]

\* get_live_injuries on every roster and injury page of the bounds
InitInjuries ==
    /\ team_map \in Rosters
    /\ inj_fetch \in InjuryFetches
    /\ injuries = EmptyDict
    /\ inj_pc = "start"
    /\ IdleGames /\ IdleMatchup /\ IdleTrends /\ IdleCache
SpecInjuries == InitInjuries /\ [][GetLiveInjuries]_vars

\* get_todays_games on every scoreboard of the bounds
InitGames ==
    /\ board \in Boards
    /\ games = EmptyDict
    /\ probed = {}
    /\ games_pc = "start"
    /\ IdleInjuries /\ IdleMatchup /\ IdleTrends /\ IdleCache
SpecGames == InitGames /\ [][GetTodaysGames]_vars

\* analyze_matchup on every team, schedule and defense table of the bounds
InitMatchup ==
    /\ my_team \in BoardTeams
    /\ board \in {b \in Boards : Len(b[Today].rows) <= 1 /\ b[NextDay].rows = <<>>}
    /\ games = get_todays_games(board)
    /\ probed = DatesProbed
    /\ games_pc = "ok"
    /\ defense \in MatchupDefenses
    /\ matchup = <<>>
    /\ IdleInjuries /\ IdleTrends /\ IdleCache
SpecMatchup == InitMatchup /\ [][AnalyzeMatchup]_vars

\* get_league_trends, then the tab 1 consumer, on every feed of the bounds
InitTrends ==
    /\ season_in \in SeasonFetches
    /\ last5_in \in Last5Fetches
    /\ live_in \in LiveFetches
    /\ board \in TrendBoards
    /\ trends = EmptyFrame
    /\ trends_pc = "start"
    /\ rendered = "none"
    /\ games = EmptyDict
    /\ probed = {}
    /\ games_pc = "start"
    /\ IdleInjuries /\ IdleMatchup /\ IdleCache
SpecTrends == InitTrends /\ [][GetLeagueTrends \/ Tab1Trends]_vars

\* the script's cached calls as the clock advances
InitCache == IdleInjuries /\ IdleGames /\ IdleMatchup /\ IdleTrends /\ IdleCache
NextCache == CallLiveInjuries \/ CallLeagueTrends \/ Tick
SpecCache == InitCache /\ [][NextCache]_vars

Init == InitCache
Next == NextCache
Spec == SpecCache

(***************************************************************************)
(* Claims                                                                  *)
(***************************************************************************)
Range(s) == {s[i] : i \in DOMAIN s}

\* ---- get_league_trends ------------------------------------------------

SeasonIds == {r.PLAYER_ID : r \in Range(season_in.rows)}
RecentIds == {r.PLAYER_ID : r \in {x \in Range(last5_in.rows) : x.GP >= 3}}
AllFetchesOk == season_in.ok /\ last5_in.ok

\* C1: when every fetch succeeds the returned table holds exactly one record
\* for each player that is in the season stats and in the last-5 stats with
\* GP >= 3, and no record for anyone else.
C1_OneRecordPerJoinedPlayer ==
    (trends_pc # "start" /\ AllFetchesOk) =>
        /\ trends_pc = "ok"
        /\ {r.Player : r \in Range(trends.rows)}
              = {<<"Player", p>> : p \in SeasonIds \cap RecentIds}
        /\ Len(trends.rows) = Cardinality(SeasonIds \cap RecentIds)

\* a run in which one player is kept and another, in both feeds but with two
\* recent games, is dropped
C1_Witness ==
    /\ trends_pc = "ok"
    /\ Len(trends.rows) = 1
    /\ \E r \in Range(last5_in.rows) : r.GP < 3 /\ r.PLAYER_ID \in SeasonIds

\* C3: every record of the returned table has
\* Trend (Delta) = Last 5 PPG - Season PPG, on the values the record holds,
\* which are the values of the two feeds for that player.
C3_DeltaIsRecentMinusSeason ==
    trends_pc = "ok" =>
        \A r \in Range(trends.rows) :
            /\ r.TrendDelta = r.Last5PPG - r.SeasonPPG
            /\ \E s \in Range(season_in.rows), l \in Range(last5_in.rows) :
                  /\ s.PLAYER_NAME = r.Player /\ l.PLAYER_ID = s.PLAYER_ID
                  /\ r.SeasonPPG = s.PTS /\ r.Last5PPG = l.PTS

\* a returned table with a rising and a falling player
C3_Witness ==
    /\ trends_pc = "ok"
    /\ \E r \in Range(trends.rows) : r.TrendDelta > 0
    /\ \E r \in Range(trends.rows) : r.TrendDelta < 0

TeamOfRecord(r) == (CHOOSE s \in Range(season_in.rows) : s.PLAYER_NAME = r.Player).TEAM_ID

C8_FailureKeepsColumns ==
    /\ trends_pc = "failed" => (trends.rows = <<>> /\ trends.columns = Cols)
    /\ rendered # "KeyError"

\* ---- analyze_matchup --------------------------------------------------

HasScheduleEntry == my_team \in DOMAIN games
HasDefenseEntry == HasScheduleEntry /\ games[my_team] \in DOMAIN defense

\* C2: the matchup label is decided by (schedule entry, defense entry,
\* rating): no schedule entry gives "No Game" whatever the defense table
\* holds; else no defense entry for the opponent gives the unknown-opponent
\* label; else rating > 116.0 is soft, < 112.0 tough, and every other
\* rating, 112.0 and 116.0 included, average; 118.0 soft, 110.0 tough,
\* 114.0 average.
C2_MatchupLabelTable ==
    matchup # <<>> =>
        /\ ~HasScheduleEntry => matchup = <<"No Game">>
        /\ (HasScheduleEntry /\ ~HasDefenseEntry) => matchup = <<"vs Unknown">>
        /\ HasDefenseEntry =>
              LET e == defense[games[my_team]]
                  kind == IF e.Rating > 1160 THEN " (Soft)"
                          ELSE IF e.Rating < 1120 THEN " (Tough)"
                          ELSE " (Avg)"
              IN /\ matchup = <<"vs ", e.Team, kind>>
                 /\ e.Rating = 1180 => matchup[3] = " (Soft)"
                 /\ e.Rating = 1100 => matchup[3] = " (Tough)"
                 /\ e.Rating \in {1120, 1140, 1160} => matchup[3] = " (Avg)"

\* an opponent rated exactly 116.0 labelled average
C2_Witness ==
    /\ HasDefenseEntry
    /\ defense[games[my_team]].Rating = 1160
    /\ matchup = <<"vs ", TeamName(games[my_team]), " (Avg)">>

\* ---- get_live_injuries ------------------------------------------------

RECURSIVE FlattenPlayerRows(_)
FlattenPlayerRows(tables) ==
    IF tables = <<>> THEN <<>>
    ELSE (IF "Player" \in Head(tables).cols THEN Head(tables).rows ELSE <<>>)
         \o FlattenPlayerRows(Tail(tables))

InjRows == FlattenPlayerRows(inj_fetch.tables)
\* roster positions whose canonical name occurs in the raw name
MatchesOf(raw) == {j \in DOMAIN team_map : IsSubstring(team_map[j][1], raw)}
FirstMatch(raw) == CHOOSE j \in MatchesOf(raw) : \A k \in MatchesOf(raw) : j <= k
KeyOf(raw) == IF MatchesOf(raw) = {} THEN raw ELSE team_map[FirstMatch(raw)][1]
TeamOf(raw) == IF MatchesOf(raw) = {} THEN "Unknown" ELSE team_map[FirstMatch(raw)][2]

\* C5: each injury row is keyed by the first roster name, in roster order,
\* that is a substring of the raw name, with that name's team, or by the raw
\* name with team "Unknown" when none is; the value is "<status> (<team>)"
\* and the later of two rows with one key wins.
C5_FirstSubstringMatchWins ==
    inj_pc = "ok" =>
        /\ DOMAIN injuries = {KeyOf(InjRows[i].Player) : i \in DOMAIN InjRows}
        /\ \A i \in DOMAIN InjRows :
              (\A j \in DOMAIN InjRows :
                    j > i => KeyOf(InjRows[j].Player) # KeyOf(InjRows[i].Player))
                => injuries[KeyOf(InjRows[i].Player)]
                     = <<InjRows[i].Status, " (", TeamOf(InjRows[i].Player), ")">>

\* the roster {"ab": BOS} and the raw name "aab" (a garbled prefix before the
\* canonical name): the key is "ab" and the value ends in "(BOS)"
C5_Witness ==
    /\ inj_pc = "ok"
    /\ team_map = << <<(<<"a", "b">>), "BOS">> >>
    /\ \E i \in DOMAIN InjRows : InjRows[i].Player = <<"a", "a", "b">>
    /\ <<"a", "b">> \in DOMAIN injuries
    /\ injuries[<<"a", "b">>][3] = "BOS"

\* ---- get_todays_games -------------------------------------------------

TeamsOfRow(r) == {r.HOME_TEAM_ID, r.VISITOR_TEAM_ID}
Symmetric(g) == \A a \in DOMAIN g : g[a] \in DOMAIN g /\ g[g[a]] = a
\* no team is paired with two different opponents on the probed day
OnePairingPerTeam(rows) ==
    \A i, j \in DOMAIN rows :
        TeamsOfRow(rows[i]) = TeamsOfRow(rows[j])
        \/ TeamsOfRow(rows[i]) \cap TeamsOfRow(rows[j]) = {}

C10_UnionOfTwoDates ==
    games_pc = "ok" =>
        /\ Cardinality(probed) >= 2
        /\ \A d \in {Today, NextDay} : \A r \in Range(board[d].rows) :
              TeamsOfRow(r) \subseteq DOMAIN games

\* C10 amended: one calendar date is probed, today in US/Eastern, and the
\* returned map holds the pairings of that date's rows and nothing else.
C10_OnlyTodayIsProbed ==
    games_pc = "ok" =>
        /\ probed = {Today}
        /\ DOMAIN games = UNION {TeamsOfRow(r) : r \in Range(board[Today].rows)}
        /\ \A a \in DOMAIN games : \E r \in Range(board[Today].rows) :
              TeamsOfRow(r) = {a, games[a]}

\* a game listed only under the following date is missing from the map
C10_Witness ==
    /\ games_pc = "ok"
    /\ games # EmptyDict
    /\ \E r \in Range(board[NextDay].rows) : TeamsOfRow(r) \cap DOMAIN games = {}

\* ---- st.cache_data ----------------------------------------------------

ClaimedTtl(f) ==
    CASE f = "get_team_map" -> 86400
      [] f = "get_live_injuries" -> 3600
      [] f = "get_todays_games" -> 3600
      [] f = "get_league_trends" -> 600
WithinTtl(f) == cache[f].valid /\ now - cache[f].ts < ClaimedTtl(f)

\* C9: a call of a cached producer made less than its ttl (86400, 3600,
\* 3600, 600 s) after the stored value was produced returns the stored value
\* and does not run the producer; a call made once the ttl has elapsed (or
\* with nothing stored) runs the producer and stores its value with the time
\* of the call.
C9_ServedWithinTtlElseRefreshed ==
    [][ret'.n # ret.n =>
         \A f \in ret'.called :
            IF WithinTtl(f)
            THEN /\ ret'.got[f] = cache[f].val
                 /\ f \notin ret'.ran
                 /\ cache'[f] = cache[f]
            ELSE /\ f \in ret'.ran
                 /\ cache'[f] = [valid |-> TRUE, ts |-> now, val |-> ret'.got[f]]
                 /\ ret'.got[f][1] = now]_vars

\* the aggregator served from the cache 599 s after its value was produced,
\* and the schedule it had read refreshed since
C9_Witness ==
    /\ "get_league_trends" \in ret.called
    /\ "get_league_trends" \notin ret.ran
    /\ now - cache["get_league_trends"].ts = 599
    /\ ret.got["get_league_trends"] = cache["get_league_trends"].val

====
